---- MODULE Spec2Model ----
(***************************************************************************)
(* Model of cvrve/internships-bot, src/mainbot.py: the periodic            *)
(* check_roles cycle (snapshot read, diff against previous_data.json,      *)
(* fan-out of every message to the channels, checkpoint write) and the     *)
(* per-channel delivery state (failed_channels, channel_failure_counts).   *)
(*                                                                         *)
(* The program runs on one asyncio event loop, so a step of the model is   *)
(* the code between two suspension points (await) of one coroutine.        *)
(* The discord package is taken as the code uses it: the exception classes *)
(* named in send_message (discord.InvalidArgument among them) exist, and   *)
(* a tasks.loop awaits its body, retries it after an OSError and ends on   *)
(* any other exception of the body.                                        *)
(* Ghost variables (start_failed, attempts, streak, inflight, last_read,    *)
(* hist, old_roles, wbit) only record what happened; no guard of the       *)
(* program reads them.                                                     *)
(***************************************************************************)
EXTENDS Integers, Sequences, FiniteSets, TLC

(* ---------------------------- bounds ----------------------------------- *)

\* longest snapshot the provider returns in the model
MaxLen == 2

\* longest baseline and snapshot the diff is applied to on its own
DiffMaxLen == 2

(* ---------------------- program constants ------------------------------ *)

\* InternshipBot.__init__(max_retries: int = 3)
MaxRetries == 3

\* the configured destination list, self.channel_ids; "" is what
\* os.environ.get("CHANNEL_IDS", "").split(",") leaves for an empty entry.
\* The identifiers of the list are distinct (a set of destinations).
channel_ids == <<"1", "2", "">>

Idx == 1..Len(channel_ids)
Ids == {channel_ids[i] : i \in Idx}

\* int(channel_id): raises ValueError for a string that is not an integer
IntParses(channel_id) == channel_id # ""

(* ----------------------- records and snapshots ------------------------- *)

\* InternshipRole: the fields the diff reads, and url for the fields it only
\* carries (locations, season and sponsorship are carried like url)
RoleAt(t, c, u, a, v) ==
    [title |-> t, company_name |-> c, url |-> u, active |-> a, is_visible |-> v]
Role(t, c, a, v) == RoleAt(t, c, "u1", a, v)

Roles == { Role("A", "X", TRUE, TRUE), Role("A", "X", FALSE, TRUE) }

\* the roles the diff is applied to on its own: one identity with every
\* combination of the two flags and an edited url, and a second identity
DiffRoles ==
    { Role("A", "X", a, v) : a \in BOOLEAN, v \in BOOLEAN }
      \cup { RoleAt("A", "X", "u2", TRUE, TRUE) }
      \cup { Role("B", "X", a, TRUE) : a \in BOOLEAN }

SeqsUpTo(S, n) == UNION { [1..k -> S] : k \in 0..n }

\* what read_json can return: any list of roles, identities may repeat
Snapshots == SeqsUpTo(Roles, MaxLen)
DiffSnapshots == SeqsUpTo(DiffRoles, DiffMaxLen)

\* the snapshots of one role over the cycles: absent, or present with any flags
CycleSnapshots ==
    {<<>>} \cup {<<Role("A", "X", a, v)>> : a \in BOOLEAN, v \in BOOLEAN}

\* snapshots with two identities, for the order of the messages of a cycle
OrderSnapshots ==
    { <<Role("A", "X", TRUE, TRUE)>>,
      <<Role("A", "X", FALSE, TRUE), Role("B", "X", TRUE, TRUE)>>,
      <<Role("B", "X", TRUE, TRUE), Role("A", "X", TRUE, TRUE)>>,
      <<Role("A", "X", FALSE, TRUE), Role("B", "X", FALSE, TRUE)>> }

\* InternshipRole.to_dict and from_dict: field by field
to_dict(role) == [title |-> role.title, company_name |-> role.company_name,
                  url |-> role.url,
                  active |-> role.active, is_visible |-> role.is_visible]
from_dict(data) ==
    RoleAt(data.title, data.company_name, data.url, data.active, data.is_visible)

MapSeq(F(_), s) == [k \in 1..Len(s) |-> F(s[k])]

\* key = (role.title, role.company_name)
Key(role) == <<role.title, role.company_name>>

\* old_roles_dict = {key: role for role in old_data} followed by .get(key):
\* a later role with the same key replaces an earlier one
HasOld(old_data, key) == \E k \in 1..Len(old_data) : Key(old_data[k]) = key
OldRole(old_data, key) ==
    LET last == CHOOSE k \in 1..Len(old_data) :
                   /\ Key(old_data[k]) = key
                   /\ \A j \in 1..Len(old_data) : Key(old_data[j]) = key => j <= k
    IN old_data[last]

\* variant: a role that is not visible is not reported
DeactivatedRolesVisibleOnly(old_data, data) ==
    LET Test(r) == /\ HasOld(old_data, Key(r))
                   /\ OldRole(old_data, Key(r)).active
                   /\ ~r.active
                   /\ r.is_visible
    IN SelectSeq(data, Test)

\* variant: any changed field of a role that was active is reported
DeactivatedRolesOnAnyChange(old_data, data) ==
    LET Test(r) == /\ HasOld(old_data, Key(r))
                   /\ OldRole(old_data, Key(r)).active
                   /\ OldRole(old_data, Key(r)) # r
    IN SelectSeq(data, Test)

\* the for loop of check_roles over new_data: the deactivated_roles list
DeactivatedRoles(old_data, data) ==
    LET Test(r) == /\ HasOld(old_data, Key(r))
                   /\ OldRole(old_data, Key(r)).active
                   /\ ~r.active
    IN SelectSeq(data, Test)

\* variant: a role is announced when it becomes visible and active
NewRolesWhenShown(old_data, data) ==
    LET Test(r) == /\ \/ ~HasOld(old_data, Key(r))
                      \/ ~(OldRole(old_data, Key(r)).is_visible
                             /\ OldRole(old_data, Key(r)).active)
                   /\ r.is_visible
                   /\ r.active
    IN SelectSeq(data, Test)

\* variant: a role that is not visible is announced as well
NewRolesAnyVisibility(old_data, data) ==
    LET Test(r) == /\ ~HasOld(old_data, Key(r))
                   /\ r.active
    IN SelectSeq(data, Test)

\* the for loop of check_roles over new_data: the new_roles list
NewRoles(old_data, data) ==
    LET Test(r) == /\ ~HasOld(old_data, Key(r))
                   /\ r.is_visible
                   /\ r.active
    IN SelectSeq(data, Test)

\* MessageFormatter: one message per role, of the kind of its template
format_new_role(role) == [kind |-> "new", role |-> role]
format_deactivation(role) == [kind |-> "deactivated", role |-> role]

\* variant: the deactivations are dispatched before the new roles
CycleMessagesDeactivatedFirst(old_data, data) ==
    MapSeq(format_deactivation, DeactivatedRoles(old_data, data))
      \o MapSeq(format_new_role, NewRoles(old_data, data))

\* the messages of a cycle in the order check_roles dispatches them
CycleMessages(old_data, data) ==
    MapSeq(format_new_role, NewRoles(old_data, data))
      \o MapSeq(format_deactivation, DeactivatedRoles(old_data, data))

(* ------------------------------ state --------------------------------- *)

VARIABLES
    failed_channels,          \* self.failed_channels: Set[str]
    channel_failure_counts,   \* self.channel_failure_counts, 0 for a missing key
    previous_data,            \* the file previous_data.json
    new_data,                 \* local new_data of the last check_roles that read it
    queue,                    \* messages of the cycle not yet fully dispatched
    tasks,                    \* the send_message coroutines of the current gather
    loop,                     \* state of the tasks.loop around check_roles
    due,                      \* the next iteration time of the loop has passed
    start_failed,             \* ghost: failed_channels when the dispatch started
    attempts,                 \* ghost: per entry, attempts made in this dispatch
    streak,                   \* ghost: counted failures since the last success
    inflight,                 \* ghost: check_roles invocations not yet finished
    last_read,                \* ghost: how the snapshot read of the last cycle ended
    hist,                     \* ghost: per identity, its announcements so far
    old_roles,                \* ghost: the baseline CheckRolesAtOnce loaded last
    wbit                      \* ghost: flips at every write of previous_data.json

vars == <<failed_channels, channel_failure_counts, previous_data, new_data, queue,
          tasks, loop, due, start_failed, attempts, streak, inflight,
          last_read, hist, old_roles, wbit>>

dest_vars == <<failed_channels, channel_failure_counts>>
ghost_dest_vars == <<streak>>

\* a send_message coroutine: where it is suspended, how it ended, and
\* the count its pop removed (what dict.pop returned, 0 for None)
NoTask == [pc |-> "none", result |-> "none", popped |-> 0]
Task(pc, result) == [pc |-> pc, result |-> result, popped |-> 0]

NoFile == [state |-> "absent", data |-> <<>>]
File(data) == [state |-> "ok", data |-> data]
PartialFile == [state |-> "partial", data |-> <<>>]

\* results of a send_message coroutine that _handle_channel_failure counted
CountedResults == {"fetch_notfound", "fetch_error", "send_error", "send_forbidden"}
\* of these, the recoverable classes: not found and generic transport errors
RecoverableResults == {"fetch_notfound", "fetch_error", "send_error"}
\* results that stand for discord.Forbidden
ForbiddenResults == {"fetch_forbidden", "send_forbidden"}

\* the identities (title, company_name) of the roles of the model
Identities == {<<r.title, r.company_name>> : r \in Roles \cup DiffRoles}

InitOver(S) ==
    /\ failed_channels = {}
    /\ channel_failure_counts = [d \in Ids |-> 0]
    /\ previous_data \in {NoFile} \cup {File(MapSeq(to_dict, s)) : s \in S}
    /\ new_data = <<>>
    /\ queue = <<>>
    /\ tasks = [i \in Idx |-> NoTask]
    /\ loop = "before_loop"
    /\ due = TRUE
    /\ start_failed = {}
    /\ attempts = [i \in Idx |-> 0]
    /\ streak = [d \in Ids |-> 0]
    /\ inflight = 0
    /\ last_read = "none"
    /\ hist = [id \in Identities |-> "none"]
    /\ old_roles = <<>>
    /\ wbit = 0

Init == InitOver(Snapshots)

(* ------------------------ per-destination state ------------------------ *)

\* variant: the membership test never finds the channel
IsBlacklistedNever(fc, channel_id) == FALSE

\* channel_id in self.failed_channels (send_message and the fan-out filter)
IsBlacklisted(fc, channel_id) == channel_id \in fc

\* variant: every configured channel is added
BlacklistAll(fc, channel_id) == fc \cup Ids

\* self.failed_channels.add(channel_id)
Blacklist(fc, channel_id) == fc \cup {channel_id}

\* _handle_channel_failure: the new count of channel_id
FailureCount(counts, channel_id) == counts[channel_id] + 1

\* variant: the comparison is strict
ExceededMaxRetries(count) == count > MaxRetries

\* _handle_channel_failure: the count reached max_retries
ReachedMaxRetries(count) == count >= MaxRetries

\* _handle_channel_failure(channel_id, error)
HandleChannelFailure(channel_id) ==
    LET count == FailureCount(channel_failure_counts, channel_id) IN
    /\ channel_failure_counts' = [channel_failure_counts EXCEPT ![channel_id] = count]
    /\ failed_channels' = IF ReachedMaxRetries(count)
                            THEN Blacklist(failed_channels, channel_id)
                            ELSE failed_channels
    /\ streak' = [streak EXCEPT ![channel_id] = @ + 1]

\* variant: a bare except, every exception is counted as a failure
UnhandledCounted(channel_id) == HandleChannelFailure(channel_id)

\* an exception that the except clause of send_message does not list leaves
\* the coroutine: neither failed_channels nor the counts are touched
Unhandled(channel_id) == UNCHANGED <<dest_vars, ghost_dest_vars>>

\* variant: the count is kept after a success
PopCountKeeps(counts, channel_id) == counts

\* self.channel_failure_counts.pop(channel_id, None)
PopCount(counts, channel_id) == [counts EXCEPT ![channel_id] = 0]

\* the successful path of send_message after channel.send returned
HandleSuccess(channel_id) ==
    /\ channel_failure_counts' = PopCount(channel_failure_counts, channel_id)
    /\ streak' = [streak EXCEPT ![channel_id] = 0]
    /\ UNCHANGED failed_channels

\* self.failed_channels.add(channel_id) without touching the count
BlacklistNow(channel_id) ==
    /\ failed_channels' = Blacklist(failed_channels, channel_id)
    /\ UNCHANGED <<channel_failure_counts, streak>>

cycle_vars == <<previous_data, new_data, queue, loop, due, start_failed, inflight,
                last_read, hist, old_roles, wbit>>

(* ---------------------- send_message coroutines ------------------------ *)

SetTask(i, t) == tasks' = [tasks EXCEPT ![i] = t]

\* what self.get_channel(id) can return: nothing cached, a TextChannel,
\* or a channel of another type
CacheResults == {"none", "text", "other"}

\* how await self.fetch_channel(id) can end
FetchResults == {"text", "other", "NotFound", "Forbidden", "HTTPException", "raise"}

\* how await channel.send(message) can end
SendResults == {"ok", "Forbidden", "NotFound", "HTTPException", "raise"}

\* isinstance(channel, TextChannel) on a channel just obtained: start the send,
\* or blacklist a channel that is not a text channel
UseChannel(i, kind) ==
    IF kind = "text"
      THEN /\ SetTask(i, Task("sending", "none"))
           /\ UNCHANGED <<dest_vars, ghost_dest_vars>>
      ELSE /\ SetTask(i, Task("done", "not_text"))
           /\ BlacklistNow(channel_ids[i])

\* send_message from its first line to its first await
SendMessageStart(i) ==
    /\ tasks[i].pc = "ready"
    /\ UNCHANGED cycle_vars
    /\ IF IsBlacklisted(failed_channels, channel_ids[i])
         THEN /\ SetTask(i, Task("done", "skipped"))
              /\ UNCHANGED <<dest_vars, ghost_dest_vars, attempts>>
         ELSE /\ attempts' = [attempts EXCEPT ![i] = @ + 1]
              /\ IF ~IntParses(channel_ids[i])
                   THEN /\ SetTask(i, Task("done", "raised"))
                        /\ Unhandled(channel_ids[i])
                   ELSE \E cached \in CacheResults :
                          IF cached = "none"
                            THEN /\ SetTask(i, Task("fetching", "none"))
                                 /\ UNCHANGED <<dest_vars, ghost_dest_vars>>
                            ELSE UseChannel(i, cached)

\* send_message resumed by the end of await self.fetch_channel(...)
FetchChannelReturns(i) ==
    /\ tasks[i].pc = "fetching"
    /\ UNCHANGED <<cycle_vars, attempts>>
    /\ \E r \in FetchResults :
         CASE r \in {"text", "other"} -> UseChannel(i, r)
           [] r = "NotFound" ->
                /\ SetTask(i, Task("done", "fetch_notfound"))
                /\ HandleChannelFailure(channel_ids[i])
           [] r = "Forbidden" ->
                /\ SetTask(i, Task("done", "fetch_forbidden"))
                /\ BlacklistNow(channel_ids[i])
           [] r = "HTTPException" ->
                /\ SetTask(i, Task("done", "fetch_error"))
                /\ HandleChannelFailure(channel_ids[i])
           [] r = "raise" ->
                /\ SetTask(i, Task("done", "raised"))
                /\ Unhandled(channel_ids[i])

\* the except clause of send_message around channel.send: every listed
\* discord exception class goes to _handle_channel_failure
SendFailureResult(r) == IF r = "Forbidden" THEN "send_forbidden" ELSE "send_error"

\* variant: send_message returns after the send, without the sleep
SentTaskNoDelay(count) == [Task("done", "sent") EXCEPT !.popped = count]

\* send_message after a send that returned: the count is popped (it was
\* count), then await asyncio.sleep(2)
SentTask(count) == [Task("sleeping", "sent") EXCEPT !.popped = count]

\* send_message resumed by the end of await channel.send(message)
SendReturns(i) ==
    /\ tasks[i].pc = "sending"
    /\ UNCHANGED <<cycle_vars, attempts>>
    /\ \E r \in SendResults :
         CASE r = "ok" ->
                /\ SetTask(i, SentTask(channel_failure_counts[channel_ids[i]]))
                /\ HandleSuccess(channel_ids[i])
           [] r \in {"Forbidden", "NotFound", "HTTPException"} ->
                /\ SetTask(i, Task("done", SendFailureResult(r)))
                /\ HandleChannelFailure(channel_ids[i])
           [] r = "raise" ->
                /\ SetTask(i, Task("done", "raised"))
                /\ Unhandled(channel_ids[i])

\* send_message resumed by the end of await asyncio.sleep(2)
SleepReturns(i) ==
    /\ tasks[i].pc = "sleeping"
    /\ SetTask(i, [tasks[i] EXCEPT !.pc = "done"])
    /\ UNCHANGED <<cycle_vars, attempts, dest_vars, ghost_dest_vars>>

(* ------------------------------ the cycle ------------------------------ *)

\* send_tasks of send_messages_to_channels: one coroutine per configured
\* channel that is not in failed_channels
SendTasks(fc) == [i \in Idx |-> IF IsBlacklisted(fc, channel_ids[i])
                                  THEN NoTask ELSE Task("ready", "none")]

\* variant: gather without return_exceptions, over at the first exception
GatherDoneFirstException(ts) ==
    \/ \A i \in Idx : ts[i].pc \in {"none", "done"}
    \/ \E i \in Idx : ts[i].result = "raised"

\* variant: the coroutines are started and not awaited
GatherDoneNoWait(ts) == TRUE

\* await asyncio.gather(*send_tasks, return_exceptions=True) is over
GatherDone(ts) == \A i \in Idx : ts[i].pc \in {"none", "done"}

\* how the write of previous_data.json can end: written, open() raised
\* OSError, or the write raised OSError after open() truncated the file
WriteResults == {"ok", "open_fails", "dump_fails"}

\* variant: the file is left as it was
WrittenFileStale(old_file, data, w) == old_file

\* variant: the write keeps the stored roles that the snapshot no longer has
WrittenFileMerged(old_file, data, w) ==
    LET Kept(d) == \A k \in 1..Len(data) : Key(data[k]) # <<d.title, d.company_name>>
        kept == IF old_file.state = "ok" THEN SelectSeq(old_file.data, Kept) ELSE <<>>
    IN CASE w = "ok" -> File(MapSeq(to_dict, data) \o kept)
         [] w = "open_fails" -> old_file
         [] w = "dump_fails" -> PartialFile

\* the with open(previous_data_path, "w") block of check_roles
WrittenFile(old_file, data, w) ==
    CASE w = "ok" -> File(MapSeq(to_dict, data))
      [] w = "open_fails" -> old_file
      [] w = "dump_fails" -> PartialFile

\* the loop after check_roles returned (sleep until the next iteration) or
\* raised OSError (retry after a backoff)
LoopAfterWrite(w) == IF w = "ok" THEN "sleeping" ELSE "backoff"

\* check_roles from the top of its dispatch loops, with the messages q still
\* to send, up to its next await or its end; n invocations are in flight.
\* A gather over an empty send_tasks list does not suspend check_roles.
Continue(q, data, n) ==
    IF q # <<>> /\ SendTasks(failed_channels) # [i \in Idx |-> NoTask]
      THEN /\ queue' = q
           /\ new_data' = data
           /\ tasks' = SendTasks(failed_channels)
           /\ start_failed' = failed_channels
           /\ attempts' = [i \in Idx |-> 0]
           /\ loop' = "running"
           /\ inflight' = n
           /\ UNCHANGED <<previous_data, wbit>>
      ELSE \E w \in WriteResults :
           /\ previous_data' = WrittenFile(previous_data, data, w)
           /\ wbit' = 1 - wbit
           /\ loop' = LoopAfterWrite(w)
           /\ queue' = <<>>
           /\ new_data' = data
           /\ tasks' = [i \in Idx |-> NoTask]
           /\ inflight' = n - 1
           /\ UNCHANGED <<start_failed, attempts>>

\* variant: a timer that fires whether or not check_roles has returned
LoopMayRunOnTimer == (loop \in {"sleeping", "running"} /\ due) \/ loop = "backoff"

\* tasks.loop: the loop calls check_roles when its sleep until the next
\* iteration is over, or when the backoff after an OSError is over
LoopMayRun == (loop = "sleeping" /\ due) \/ loop = "backoff"

\* tasks.loop: the next iteration time is set when an iteration starts,
\* except for the retry of a failed iteration
DueAfterStart == IF loop = "backoff" THEN due ELSE FALSE

\* tasks.loop: an OSError raised by check_roles is retried after a backoff,
\* any other exception ends the loop
LoopAfterFailure(e) == IF e = "OSError" THEN "backoff" ELSE "stopped"

\* before_check_roles: wait_until_ready returned
BeforeLoopReturns ==
    /\ loop = "before_loop"
    /\ loop' = "sleeping"
    /\ UNCHANGED <<failed_channels, channel_failure_counts, previous_data, new_data,
                   queue, tasks, due, start_failed, attempts, streak,
                   inflight, last_read, hist, old_roles, wbit>>

\* the poll interval has passed since the last iteration started
Tick ==
    /\ ~due
    /\ loop \in {"sleeping", "running"}
    /\ due' = TRUE
    /\ UNCHANGED <<failed_channels, channel_failure_counts, previous_data, new_data,
                   queue, tasks, loop, start_failed, attempts, streak,
                   inflight, last_read, hist, old_roles, wbit>>

\* what clone_or_update followed by read_json gives: the list of roles, or
\* an exception, OSError (no file, rmdir failed) or another one (git error,
\* invalid JSON, missing field)
ProviderResultsOver(S) ==
    {[error |-> "none", data |-> d] : d \in S}
      \cup {[error |-> e, data |-> <<>>] : e \in {"OSError", "error"}}
ProviderResults == ProviderResultsOver(Snapshots)

\* what the read of previous_data.json gives: the empty list for a missing
\* file, the stored roles, OSError when the file cannot be opened, another
\* exception (JSONDecodeError) for a partly written file
LoadResults(file) ==
    CASE file.state = "absent" -> {[error |-> "none", data |-> <<>>]}
      [] file.state = "ok" -> {[error |-> "none", data |-> MapSeq(from_dict, file.data)],
                               [error |-> "OSError", data |-> <<>>]}
      [] file.state = "partial" -> {[error |-> "error", data |-> <<>>]}

\* variant: the exception is swallowed and the cycle goes on with empty data
AbortsNever(error) == FALSE

\* check_roles has no try: an exception of a statement leaves the coroutine
Aborts(error) == error # "none"

\* check_roles ended by the exception e before its dispatch loops
Raise(e) ==
    /\ loop' = LoopAfterFailure(e)
    /\ UNCHANGED <<previous_data, new_data, queue, tasks, start_failed, attempts,
                   inflight, wbit>>

\* check_roles from its start: snapshot, baseline, diff, then the dispatch
\* loops up to the first await (or to the end when nothing is awaited)
CheckRolesOver(S) ==
    /\ LoopMayRun
    /\ due' = DueAfterStart
    /\ UNCHANGED <<dest_vars, ghost_dest_vars, hist, old_roles>>
    /\ \E r \in ProviderResultsOver(S), l \in LoadResults(previous_data) :
         /\ last_read' = IF r.error = "none" THEN "ok" ELSE "failed"
         /\ IF Aborts(r.error) THEN Raise(r.error)
            ELSE IF Aborts(l.error) THEN Raise(l.error)
            ELSE Continue(CycleMessages(l.data, r.data), r.data, inflight + 1)

CheckRoles == CheckRolesOver(Snapshots)

\* check_roles resumed by the end of the gather of the current message
GatherReturns ==
    /\ loop = "running"
    /\ queue # <<>>
    /\ GatherDone(tasks)
    /\ Continue(Tail(queue), new_data, inflight)
    /\ UNCHANGED <<dest_vars, ghost_dest_vars, due, last_read, hist, old_roles>>

Next ==
    \/ BeforeLoopReturns
    \/ Tick
    \/ CheckRoles
    \/ GatherReturns
    \/ \E i \in Idx : SendMessageStart(i)
    \/ \E i \in Idx : FetchChannelReturns(i)
    \/ \E i \in Idx : SendReturns(i)
    \/ \E i \in Idx : SleepReturns(i)

Spec == Init /\ [][Next]_vars

(***************************************************************************)
(* The same program over snapshots with two identities: the order in which *)
(* the messages of a cycle are dispatched.                                 *)
(***************************************************************************)
InitOrder == InitOver(OrderSnapshots)

NextOrder ==
    \/ BeforeLoopReturns
    \/ Tick
    \/ CheckRolesOver(OrderSnapshots)
    \/ GatherReturns
    \/ \E i \in Idx : SendMessageStart(i)
    \/ \E i \in Idx : FetchChannelReturns(i)
    \/ \E i \in Idx : SendReturns(i)
    \/ \E i \in Idx : SleepReturns(i)

SpecOrder == InitOrder /\ [][NextOrder]_vars

(***************************************************************************)
(* check_roles as one step, from the read of the snapshot to the write of  *)
(* previous_data.json. Its awaits only wait for the deliveries, which read *)
(* and write neither the snapshot, nor the messages, nor the file. The     *)
(* messages of the cycle stay in queue, as the record of what it emitted.  *)
(***************************************************************************)
\* the identities of a list of roles
Keys(data) == {Key(data[k]) : k \in 1..Len(data)}

\* the identities the messages of a cycle announce as new
Announced(q) == {Key(q[k].role) : k \in {n \in 1..Len(q) : q[n].kind = "new"}}

\* ghost: what a cycle that came to its end makes of the history of an identity.
\*   "silent"    in previous_data.json without an announcement, present ever since
\*   "announced" announced, present ever since
\*   "gone"      announced earlier, absent from the last snapshot written
\*   "again"     announced a second time after "gone"
HistAfter(h, id, old_data, data, q) ==
    CASE h = "none" -> IF id \in Announced(q) THEN "announced"
                       ELSE IF id \in Keys(data) /\ id \notin Keys(old_data) THEN "silent"
                       ELSE "none"
      [] h = "silent" -> IF id \in Keys(data) THEN "silent" ELSE "none"
      [] h = "gone" -> IF id \in Announced(q) THEN "again"
                       ELSE IF id \in Keys(data) THEN "silent"
                       ELSE "gone"
      [] OTHER -> IF id \in Keys(data) THEN h ELSE "gone"

CheckRolesAtOnce(S, W) ==
    \E data \in S, l \in LoadResults(previous_data), w \in W :
      /\ ~Aborts(l.error)
      /\ new_data' = data
      /\ old_roles' = l.data
      /\ queue' = CycleMessages(l.data, data)
      /\ previous_data' = WrittenFile(previous_data, data, w)
      /\ wbit' = 1 - wbit
      /\ hist' = IF w = "ok"
                 THEN [id \in Identities |-> HistAfter(hist[id], id, l.data, data, queue')]
                 ELSE hist
      /\ UNCHANGED <<dest_vars, ghost_dest_vars, tasks, loop, due, start_failed,
                     attempts, inflight, last_read>>

\* the diff and the write, once, on any baseline and any snapshot
InitDiff == InitOver(DiffSnapshots)

DiffOnce == wbit = 0 /\ CheckRolesAtOnce(DiffSnapshots, {"ok"})

NextDiff == DiffOnce

SpecDiff == InitDiff /\ [][NextDiff]_vars

\* cycle after cycle, the write of each ending in any of its ways
InitCycles == InitOver(CycleSnapshots)

NextCycles == CheckRolesAtOnce(CycleSnapshots, WriteResults)

SpecCycles == InitCycles /\ [][NextCycles]_vars

(* ============================== claims ================================= *)

IdOf(i) == channel_ids[i]
Settles(i) == tasks[i].pc # "done" /\ tasks'[i].pc = "done"
WriteStep == wbit' # wbit
GatherReturnStep == loop = "running" /\ queue' # queue
AllSettled(ts) == \A i \in Idx : ts[i].pc \in {"none", "done"}

\* C1: a discord.Forbidden, raised by fetch_channel or by the send itself,
\* puts the channel in failed_channels at once, whatever its failure count.
\* Stated as: a coroutine that ended with Forbidden has its channel
\* blacklisted. The send path counts it as a failure instead.
C1_ForbiddenBlacklistsAtOnce ==
    \A i \in Idx : tasks[i].result \in ForbiddenResults => IdOf(i) \in failed_channels

\* C2: once a channel is in failed_channels it stays there, its count is
\* never changed again, no coroutine is created or run for it and no attempt
\* is made to it, in this and in every later dispatch.
C2_BlacklistIsTerminal ==
    [][\A i \in Idx :
         IdOf(i) \in failed_channels =>
           /\ IdOf(i) \in failed_channels'
           /\ channel_failure_counts'[IdOf(i)] = channel_failure_counts[IdOf(i)]
           /\ tasks'[i].pc \in {"none", "done"}
           /\ attempts'[i] <= attempts[i]]_vars

\* a later dispatch runs while a channel blacklisted before it has no coroutine
C2_Witness ==
    \E i, j \in Idx :
        /\ IdOf(i) \in start_failed
        /\ tasks[i].pc = "none"
        /\ tasks[j].pc = "sending"

\* C3: a recoverable failure (not found, transport error) adds exactly one
\* to the count of its channel and blacklists it exactly when the new count
\* has reached max_retries; a channel that is not blacklisted always has a
\* count below max_retries.
C3_RecoverableStep ==
    \A i \in Idx :
        (Settles(i) /\ tasks'[i].result \in RecoverableResults) =>
          /\ channel_failure_counts'[IdOf(i)] = channel_failure_counts[IdOf(i)] + 1
          /\ \A d \in Ids \ {IdOf(i)} :
                channel_failure_counts'[d] = channel_failure_counts[d]
          /\ IdOf(i) \in failed_channels'
                <=> channel_failure_counts'[IdOf(i)] >= MaxRetries

C3_CountBelowThreshold ==
    \A d \in Ids : d \notin failed_channels => channel_failure_counts[d] < MaxRetries

C3_RecoverableFailuresCount ==
    [][C3_RecoverableStep]_vars /\ []C3_CountBelowThreshold

\* the failure that reaches max_retries has blacklisted the channel
C3_Witness ==
    \E i \in Idx :
        /\ tasks[i].result \in RecoverableResults
        /\ channel_failure_counts[IdOf(i)] = MaxRetries
        /\ IdOf(i) \in failed_channels

\* C4: a successful send sets the count of its channel to 0, the count is
\* the number of counted failures since the last success, and a counted
\* failure blacklists only when that number has reached max_retries.
C4_SuccessResetsCount ==
    \A i \in Idx :
        /\ channel_failure_counts[IdOf(i)] = streak[IdOf(i)]
        /\ tasks[i].result = "sent" => channel_failure_counts[IdOf(i)] = 0
        /\ (tasks[i].result \in CountedResults /\ IdOf(i) \in failed_channels)
              => streak[IdOf(i)] >= MaxRetries

\* a success after max_retries - 1 failures in a row has cleared the count
C4_Witness ==
    \E i \in Idx :
        /\ tasks[i].result = "sent"
        /\ tasks[i].popped = MaxRetries - 1
        /\ channel_failure_counts[IdOf(i)] = 0
        /\ IdOf(i) \notin failed_channels

\* C5: when the gather of a message returns, every channel that was not
\* blacklisted when the dispatch started has had exactly one attempt, and
\* its coroutine has ended, whatever happened to the other coroutines.
C5_OneAttemptStep ==
    GatherReturnStep =>
        \A i \in Idx :
            IdOf(i) \notin start_failed =>
                attempts[i] = 1 /\ tasks[i].pc = "done"

C5_OneAttemptEach ==
    [][C5_OneAttemptStep]_vars /\ [](\A i \in Idx : attempts[i] <= 1)

\* one dispatch settled with a permission denial, a delivery and an exception
C5_Witness ==
    /\ AllSettled(tasks)
    /\ \E i, j, k \in Idx :
        /\ tasks[i].result = "fetch_forbidden"
        /\ tasks[j].result = "sent"
        /\ tasks[k].result = "raised"

\* C6: the count and the blacklist membership of a channel change only in a
\* step of the coroutine sending to that channel, a step in which no other
\* coroutine moves; no step of check_roles itself changes them.
C6_OwnAttemptOnly ==
    [][\A d \in Ids :
         (\/ channel_failure_counts'[d] # channel_failure_counts[d]
          \/ (d \in failed_channels') # (d \in failed_channels))
           => \E i \in Idx :
                /\ IdOf(i) = d
                /\ tasks[i].pc \in {"ready", "fetching", "sending"}
                /\ tasks'[i] # tasks[i]
                /\ \A j \in Idx \ {i} : tasks'[j] = tasks[j]]_vars

\* one coroutine has failed while another of the same gather is in flight
C6_Witness ==
    \E i, j \in Idx :
        /\ tasks[i].result = "fetch_notfound"
        /\ channel_failure_counts[IdOf(i)] = 1
        /\ tasks[j].pc = "sending"
        /\ channel_failure_counts[IdOf(j)] = 0
        /\ IdOf(j) \notin failed_channels

\* C7: at most one invocation of check_roles is in flight at any time.
C7_CyclesDoNotOverlap == inflight <= 1

\* the poll interval has passed while a cycle is in its rate-limit delay
C7_Witness ==
    /\ loop = "running"
    /\ inflight = 1
    /\ due
    /\ \E i \in Idx : tasks[i].pc = "sleeping"

\* C8: no outcome of a cycle ends the loop around check_roles. An exception
\* of check_roles that is not an OSError ends it.
C8_TriggerNeverStops == loop # "stopped"

\* C9: a cycle whose snapshot read fails sends nothing, changes no channel
\* state and leaves previous_data.json as it was.
C9_FailedSnapshotSkipsCycle ==
    [][(LoopMayRun /\ last_read' = "failed") =>
         /\ UNCHANGED <<failed_channels, channel_failure_counts, previous_data>>
         /\ wbit' = wbit
         /\ tasks' = [i \in Idx |-> NoTask]
         /\ queue' = <<>>]_vars

\* the snapshot read failed in a cycle that had a checkpoint to keep
C9_Witness ==
    /\ last_read = "failed"
    /\ previous_data.state = "ok"
    /\ previous_data.data # <<>>
    /\ wbit = 1

\* C10: the gather of a message returns, and previous_data.json is written,
\* only when every coroutine of the gather has ended; none is left after
\* the write.
C10_WriteAfterAllSettled ==
    [][/\ (WriteStep \/ GatherReturnStep) => AllSettled(tasks)
       /\ WriteStep => AllSettled(tasks')]_vars

\* a cycle that dispatched a message has written its checkpoint
C10_Witness ==
    /\ wbit = 1
    /\ loop = "sleeping"
    /\ previous_data.state = "ok"
    /\ \E i \in Idx : attempts[i] = 1

\* C11: a cycle that read its snapshot and its baseline always comes to the
\* write, whatever the deliveries did, and a write that returns leaves
\* previous_data.json equal to the whole snapshot of the cycle; a missing
\* previous_data.json is read as the empty baseline, without an error.
C11_Step ==
    /\ (WriteStep /\ loop' = "sleeping")
          => previous_data' = [state |-> "ok", data |-> new_data']
    /\ (loop = "running" /\ loop' # "running") => WriteStep
    /\ (LoopMayRun /\ last_read' = "ok" /\ previous_data.state = "absent")
          => /\ loop' = "running" \/ WriteStep
             /\ \A k \in 1..Len(queue') : queue'[k].kind = "new"
             /\ WriteStep => \A k \in 1..Len(new_data') :
                               ~(new_data'[k].is_visible /\ new_data'[k].active)

C11_CheckpointIsSnapshot == [][C11_Step]_vars

\* a cycle in which both channels ended blacklisted has written its snapshot
C11_Witness ==
    /\ loop = "sleeping"
    /\ new_data # <<>>
    /\ previous_data = [state |-> "ok", data |-> new_data]
    /\ {"1", "2"} \subseteq failed_channels
    /\ \E i \in Idx : attempts[i] = 1 /\ IdOf(i) \in failed_channels \ start_failed

\* C12: previous_data.json always holds a complete snapshot, also after a
\* write that failed. The file is opened with "w" and written in place, so a
\* write that fails after the open leaves a truncated file.
C12_CheckpointAlwaysComplete == previous_data.state # "partial"

\* the diff of SpecDiff has been applied: old_roles is its baseline, new_data
\* its snapshot, queue its messages and previous_data what it wrote
Diffed == wbit = 1

\* how many messages of the kind carry the record r
Emitted(kind, r) ==
    Cardinality({k \in 1..Len(queue) : queue[k].kind = kind /\ queue[k].role = r})

\* how many records of data are r
Occurs(data, r) == Cardinality({k \in 1..Len(data) : data[k] = r})

\* the record of the identity id in data, the last one when there are several
LastWins(data, id) ==
    data[CHOOSE k \in 1..Len(data) :
           /\ <<data[k].title, data[k].company_name>> = id
           /\ \A j \in (k + 1)..Len(data) : <<data[j].title, data[j].company_name>> # id]

\* C13: the diff of a snapshot against itself emits no message, also when two
\* records of the snapshot share an identity with different active flags.
C13_SameSnapshotNoEvents == (Diffed /\ old_roles = new_data) => queue = <<>>

\* C14: every record of the snapshot whose identity is not in the baseline
\* gives one new-role message if it is visible and active, and no message at
\* all otherwise; with an empty baseline that is one message for each visible
\* and active record.
C14_AppearedForNewIdentities ==
    Diffed => \A k \in 1..Len(new_data) :
                LET r == new_data[k] IN
                Key(r) \notin Keys(old_roles)
                  => /\ Emitted("new", r) =
                          IF r.is_visible /\ r.active THEN Occurs(new_data, r) ELSE 0
                     /\ Emitted("deactivated", r) = 0

\* an empty baseline, a record that is not visible and one that is announced
C14_Witness ==
    /\ Diffed
    /\ old_roles = <<>>
    /\ new_data = <<Role("A", "X", TRUE, FALSE), Role("B", "X", TRUE, TRUE)>>
    /\ Len(queue) = 1
    /\ queue[1].kind = "new"

C17_OnlyActiveIsCompared ==
    Diffed =>
      /\ \A k \in 1..Len(new_data) :
           LET r == new_data[k] IN
           (/\ Key(r) \in Keys(old_roles)
            /\ ~(LastWins(old_roles, Key(r)).active /\ ~r.active))
             => Emitted("new", r) = 0 /\ Emitted("deactivated", r) = 0
      /\ previous_data.state = "ok"
      /\ Len(previous_data.data) = Len(new_data)
      /\ \A k \in 1..Len(new_data) :
           /\ previous_data.data[k].title = new_data[k].title
           /\ previous_data.data[k].company_name = new_data[k].company_name
           /\ previous_data.data[k].url = new_data[k].url
           /\ previous_data.data[k].active = new_data[k].active
           /\ previous_data.data[k].is_visible = new_data[k].is_visible

\* the url of an active role was edited: no message, the new url is written
C17_Witness ==
    /\ Diffed
    /\ old_roles = <<Role("A", "X", TRUE, TRUE)>>
    /\ new_data = <<RoleAt("A", "X", "u2", TRUE, TRUE)>>
    /\ queue = <<>>
    /\ previous_data.data[1].url = "u2"

\* a is b with some of its elements left out
RECURSIVE IsSubseq(_, _)
IsSubseq(a, b) ==
    IF a = <<>> THEN TRUE
    ELSE IF b = <<>> THEN FALSE
    ELSE IF Head(a) = Head(b) THEN IsSubseq(Tail(a), Tail(b))
    ELSE IsSubseq(a, Tail(b))

\* the roles the messages of one kind carry, in the order of the messages
RolesOf(q, kind) ==
    LET OfKind(m) == m.kind = kind
        sel == SelectSeq(q, OfKind)
    IN [k \in 1..Len(sel) |-> sel[k].role]

\* check_roles starts and has a message to dispatch
StartsDispatch == LoopMayRun /\ loop' = "running"

\* C16: the messages of a cycle are dispatched one at a time, every new-role
\* message before any deactivation message, each group in the order of the
\* snapshot; the attempts of a message start only at the start of the cycle
\* or when every attempt of the message before has settled.
C16_Step ==
    /\ StartsDispatch
         => /\ \A a, b \in 1..Len(queue') :
                 (queue'[a].kind = "deactivated" /\ queue'[b].kind = "new") => b < a
            /\ IsSubseq(RolesOf(queue', "new"), new_data')
            /\ IsSubseq(RolesOf(queue', "deactivated"), new_data')
    /\ GatherReturnStep
         => /\ AllSettled(tasks)
            /\ queue' = Tail(queue) \/ queue' = <<>>
    /\ \A i \in Idx :
         (tasks[i].pc # "ready" /\ tasks'[i].pc = "ready")
           => /\ StartsDispatch \/ GatherReturnStep
              /\ AllSettled(tasks)

C16_DispatchOrder == [][C16_Step]_vars

\* the new-role message of B went out to the end, the deactivation of A, which
\* comes first in the snapshot, is being sent
C16_Witness ==
    /\ loop = "running"
    /\ new_data = <<Role("A", "X", FALSE, TRUE), Role("B", "X", TRUE, TRUE)>>
    /\ Len(queue) = 1
    /\ queue[1].kind = "deactivated"
    /\ \E i \in Idx : tasks[i].pc = "sending"

\* C18: a send_message whose send succeeded sleeps before it returns, and
\* the next message is attempted on its channel only after it returned; a
\* send_message that failed, was skipped or blacklisted its channel returns
\* without a sleep.
C18_Step ==
    \A i \in Idx :
      /\ (tasks[i].pc # "sleeping" /\ tasks'[i].pc = "sleeping")
           => tasks[i].pc = "sending" /\ tasks'[i].result = "sent"
      /\ (Settles(i) /\ tasks'[i].result = "sent") => tasks[i].pc = "sleeping"
      /\ (Settles(i) /\ tasks'[i].result # "sent")
           => tasks[i].pc \in {"ready", "fetching", "sending"}
      /\ (tasks[i].pc # "ready" /\ tasks'[i].pc = "ready")
           => tasks[i].pc \in {"none", "done"}

C18_DelayAfterSuccessOnly == [][C18_Step]_vars

\* one channel sleeps after its send, another failed and has returned, and a
\* second message waits for both
C18_Witness ==
    /\ Len(queue) = 2
    /\ \E i, j \in Idx :
         /\ tasks[i].pc = "sleeping"
         /\ tasks[j].pc = "done"
         /\ tasks[j].result \in RecoverableResults \cup ForbiddenResults

\* the messages q announce the identity id as new
AppearedIn(q, id) ==
    \E k \in 1..Len(q) :
      q[k].kind = "new" /\ <<q[k].role.title, q[k].role.company_name>> = id

\* C19: an identity that came into previous_data.json without a new-role
\* message, because it was not visible or not active when first seen, gets no
\* new-role message in any later cycle while it stays in the snapshots, also
\* when it has become visible and active.
C19_Step ==
    WriteStep => \A id \in Identities :
                   hist[id] = "silent" => ~AppearedIn(queue', id)

C19_NeverAnnouncedLater == [][C19_Step]_vars

\* the role came in silently, is now visible and active, and nothing is sent
C19_Witness ==
    /\ hist[<<"A", "X">>] = "silent"
    /\ Len(old_roles) = 1
    /\ ~(old_roles[1].is_visible /\ old_roles[1].active)
    /\ new_data = <<Role("A", "X", TRUE, TRUE)>>
    /\ queue = <<>>

\* C20: an identity that was announced, then was absent from the snapshot a
\* cycle wrote, gets a second new-role message when it is next present,
\* visible and active; while it stays in the snapshots written since its
\* announcement it gets no further new-role message.
C20_Step ==
    WriteStep =>
      \A id \in Identities :
        /\ (/\ hist[id] = "gone"
            /\ \E k \in 1..Len(new_data') :
                 /\ <<new_data'[k].title, new_data'[k].company_name>> = id
                 /\ new_data'[k].is_visible
                 /\ new_data'[k].active)
             => AppearedIn(queue', id)
        /\ hist[id] \in {"announced", "again"} => ~AppearedIn(queue', id)

C20_AnnouncedAgainAfterAbsence == [][C20_Step]_vars

\* the role has just been announced for the second time
C20_Witness ==
    /\ hist[<<"A", "X">>] = "again"
    /\ old_roles = <<>>
    /\ AppearedIn(queue, <<"A", "X">>)

\* C21: a send_message that ends with an exception its except clause does
\* not list (int("") raises ValueError) changes neither failed_channels nor
\* the counts and leaves the other coroutines and the cycle alone; the gather
\* still waits for all and check_roles goes on; a channel id that is not an
\* integer is never in failed_channels and gets a coroutine in every dispatch.
C21_Step ==
    /\ \A i \in Idx :
         (Settles(i) /\ tasks'[i].result = "raised")
           => /\ failed_channels' = failed_channels
              /\ channel_failure_counts' = channel_failure_counts
              /\ loop' = loop /\ queue' = queue /\ previous_data' = previous_data
              /\ \A j \in Idx \ {i} : tasks'[j] = tasks[j]
    /\ (GatherReturnStep /\ \E i \in Idx : tasks[i].result = "raised")
         => /\ AllSettled(tasks)
            /\ loop' = "running" \/ WriteStep
    /\ \A i \in Idx :
         IdOf(i) = ""
           => /\ IdOf(i) \notin failed_channels'
              /\ (\E j \in Idx : tasks[j].pc # "ready" /\ tasks'[j].pc = "ready")
                   => tasks'[i].pc = "ready"

C21_UnhandledIsSwallowed == [][C21_Step]_vars

\* channel "1" failed three messages and is blacklisted; the channel "" was
\* attempted for each of them and once more now, and is not blacklisted
C21_Witness ==
    /\ channel_failure_counts["1"] = MaxRetries
    /\ "1" \in start_failed
    /\ "" \notin failed_channels
    /\ \E i \in Idx : IdOf(i) = "" /\ tasks[i].pc = "done" /\ tasks[i].result = "raised"

====
